---- MODULE Spec2Model ----
(***************************************************************************)
(* The order schema of database-migrations (V1 functions, V2 app.orders,   *)
(* V3 app.order_items and the order-total trigger, V4 check_order_has_items)*)
(* as a state machine over the two tables.  One action is one SQL          *)
(* statement with everything the engine runs for it: row constraints, key  *)
(* constraints, the BEFORE/AFTER row triggers and the constraints of the   *)
(* rows the triggers rewrite.  A statement that raises leaves both tables  *)
(* as they were and records the violated constraint in "last".             *)
(*                                                                         *)
(* UUIDs are small integers, money is counted in thousands of currency     *)
(* units (1 is 1000.00), timestamps are ticks of the clock.                *)
(*                                                                         *)
(* The second part is the synthesis of the two CDK apps, infrastructure-   *)
(* shared and microservice-order-processor: the configuration loader and   *)
(* the constructs, each as the resources it generates from its props.      *)
(***************************************************************************)
EXTENDS Integers, Sequences, FiniteSets, TLC

VARIABLES
    orders,        \* app.orders: a set of rows
    order_items,   \* app.order_items: a set of rows
    now,           \* CURRENT_TIMESTAMP of the transaction that is executing:
                   \* the time the transaction began
    clock,         \* the server's clock
    engine,        \* the two settings of the engine the migrations depend on
    last,          \* the last statement's kind and outcome
    tx,            \* concurrent sessions: each session's open transaction
    gen,           \* sessions inside app.generate_order_number()
    cdk,           \* the CDK apps: their inputs, how far synthesis has come,
                   \* and what it has generated
    aws            \* the deployed order-processor stack at run time: the
                   \* messages of its queues, the datapoints of its metrics
                   \* and the state of its alarms

vars == <<orders, order_items, now, clock, engine, aws, cdk, last, tx, gen>>

(* engine.subquery_check: whether check_order_has_items, a CHECK with a    *)
(*   subquery, is in force on app.orders.  PostgreSQL refuses to create    *)
(*   such a constraint, an engine that accepts it evaluates it whenever an *)
(*   order row is written.                                                 *)
(* engine.variable_conflict: plpgsql.variable_conflict, which decides what *)
(*   "order_number" means inside app.generate_order_number().              *)

-----------------------------------------------------------------------------
(* Bounds of the model *)

MaxItems == 2
MaxSessions == 2
\* the six random digits of an order number run over 0 .. MaxOrderNumber
MaxOrderNumber == 2
\* the clock runs over 0 .. MaxTime
MaxTime == 2

OrderIds == {1, 2}
\* item ids share the UUID space with order ids: id 2 is in both
ItemIds == 2 .. (MaxItems + 1)
Sessions == 1 .. MaxSessions

-----------------------------------------------------------------------------
(* SQL values: NULL, three-valued comparison, CHECK *)

NULL == <<>>
V(x) == <<x>>

SqlAdd(a, b) == IF a = NULL \/ b = NULL THEN NULL ELSE V(a[1] + b[1])
SqlSub(a, b) == IF a = NULL \/ b = NULL THEN NULL ELSE V(a[1] - b[1])
SqlMul(a, b) == IF a = NULL \/ b = NULL THEN NULL ELSE V(a[1] * b[1])

SqlEq(a, b) ==
    IF a = NULL \/ b = NULL THEN "unknown"
    ELSE IF a[1] = b[1] THEN "true" ELSE "false"

SqlGe(a, b) ==
    IF a = NULL \/ b = NULL THEN "unknown"
    ELSE IF a[1] >= b[1] THEN "true" ELSE "false"

SqlGt(a, b) ==
    IF a = NULL \/ b = NULL THEN "unknown"
    ELSE IF a[1] > b[1] THEN "true" ELSE "false"

\* a CHECK constraint is violated only when its expression is false;
\* an expression that evaluates to NULL satisfies it
CheckPasses(v) == v # "false"

Coalesce(a, b) == IF a = NULL THEN b ELSE a

RECURSIVE SumTotalPrice(_)
SumTotalPrice(S) ==
    IF S = {} THEN 0
    ELSE LET r == CHOOSE x \in S : TRUE
         IN  r.total_price + SumTotalPrice(S \ {r})

\* SUM(total_price): NULL over no rows
SqlSum(S) == IF S = {} THEN NULL ELSE V(SumTotalPrice(S))

\* the largest whole thousand a NUMERIC(12, 2) holds: 9,999,999,000.00 of
\* 9,999,999,999.99
NumericMax == 9999999

\* a NUMERIC(12, 2) that takes whatever it is assigned
FitsNumeric12_2_Always(v) == TRUE

\* v can be assigned to a NUMERIC(12, 2) variable or column; the
\* assignment of any other value raises numeric_field_overflow
FitsNumeric12_2(v) ==
    v = NULL \/ (v[1] <= NumericMax /\ v[1] >= -NumericMax)

-----------------------------------------------------------------------------
(* app.order_items: columns and row constraints *)

ItemsOf(items, oid) == {r \in items : r.order_id = oid}

\* ItemRowViolation with CHECK (quantity > 0) and CHECK (unit_price >= 0)
\* left out of the table definition
ItemRowViolation_NoRangeChecks(r) ==
    IF ~CheckPasses(SqlGe(r.discount_amount, V(0)))
        THEN "order_items_discount_amount_check"
    ELSE IF ~CheckPasses(SqlGe(r.tax_amount, V(0)))
        THEN "order_items_tax_amount_check"
    ELSE IF ~CheckPasses(SqlGe(V(r.total_price), V(0)))
        THEN "order_items_total_price_check"
    ELSE IF ~CheckPasses(SqlEq(V(r.total_price),
                 SqlAdd(SqlSub(SqlMul(V(r.quantity), V(r.unit_price)),
                               r.discount_amount),
                        r.tax_amount)))
        THEN "valid_total_price"
    ELSE ""

\* the CHECK constraints of one order_items row, in the order reported;
\* "" when the row satisfies them all
ItemRowViolation(r) ==
    IF ~CheckPasses(SqlGt(V(r.quantity), V(0)))
        THEN "order_items_quantity_check"
    ELSE IF ~CheckPasses(SqlGe(V(r.unit_price), V(0)))
        THEN "order_items_unit_price_check"
    ELSE IF ~CheckPasses(SqlGe(r.discount_amount, V(0)))
        THEN "order_items_discount_amount_check"
    ELSE IF ~CheckPasses(SqlGe(r.tax_amount, V(0)))
        THEN "order_items_tax_amount_check"
    ELSE IF ~CheckPasses(SqlGe(V(r.total_price), V(0)))
        THEN "order_items_total_price_check"
    ELSE IF ~CheckPasses(SqlEq(V(r.total_price),
                 SqlAdd(SqlSub(SqlMul(V(r.quantity), V(r.unit_price)),
                               r.discount_amount),
                        r.tax_amount)))
        THEN "valid_total_price"
    ELSE ""

\* unique_order_item_number with the constraint left out of the table
unique_order_item_number_Absent(items, r) == TRUE

\* CONSTRAINT unique_order_item_number UNIQUE(order_id, item_number): row r
\* may stand beside the other rows of items
unique_order_item_number(items, r) ==
    ~\E x \in items :
        x.id # r.id /\ x.order_id = r.order_id /\ x.item_number = r.item_number

-----------------------------------------------------------------------------
(* app.orders: columns and row constraints *)

OrderStatus ==
    {"pending", "processing", "confirmed", "shipped",
     "delivered", "cancelled", "failed"}

\* valid_status_transitions with the timestamp conditions left out
valid_status_transitions_StatusOnly(o) ==
    o.status \in OrderStatus

valid_status_transitions(o) ==
    \/ o.status = "pending"
    \/ o.status = "processing" /\ o.processed_at # NULL
    \/ o.status = "confirmed" /\ o.confirmed_at # NULL
    \/ o.status = "shipped" /\ o.shipped_at # NULL
    \/ o.status = "delivered" /\ o.delivered_at # NULL
    \/ o.status = "cancelled" /\ o.cancelled_at # NULL
    \/ o.status = "failed"

\* CHECK (status = 'pending' OR EXISTS (SELECT 1 FROM app.order_items
\*        WHERE order_id = id)).  Inside the subquery both column names
\* resolve to app.order_items, the innermost relation that has them, so
\* the order row's own id plays no part in the condition.
check_order_has_items(o, items) ==
    \/ o.status = "pending"
    \/ \E oi \in items : oi.order_id = oi.id

\* the constraints of one app.orders row, evaluated against the current
\* order_items; "" when the row satisfies them all
OrderRowViolation(o, items) ==
    IF o.total_amount = NULL
        THEN "orders_total_amount_not_null"
    ELSE IF ~CheckPasses(SqlGe(o.total_amount, V(0)))
        THEN "orders_total_amount_check"
    ELSE IF ~valid_status_transitions(o)
        THEN "valid_status_transitions"
    ELSE IF engine.subquery_check /\ ~check_order_has_items(o, items)
        THEN "check_order_has_items"
    ELSE ""

-----------------------------------------------------------------------------
(* V1 trigger function and V3 order-total functions *)

\* BEFORE UPDATE ... EXECUTE FUNCTION app.update_updated_at_column()
update_updated_at_column(new) == [new EXCEPT !.updated_at = now]

\* calculate_order_total without the COALESCE
calculate_order_total_NoCoalesce(items, p_order_id) ==
    SqlSum(ItemsOf(items, p_order_id))

\* app.calculate_order_total(p_order_id)
calculate_order_total(items, p_order_id) ==
    Coalesce(SqlSum(ItemsOf(items, p_order_id)), V(0))

\* the row app.update_order_total() writes for order row o
OrderTotalRow(o, items) ==
    update_updated_at_column(
        [o EXCEPT !.total_amount = calculate_order_total(items, o.id),
                  !.updated_at = now])

\* update_order_total fired BEFORE the row change: it sums the table as the
\* statement found it
update_order_total_BeforeRow(ords, items, oid) ==
    LET hit == {o \in ords : o.id = oid}
        new == {OrderTotalRow(o, order_items) : o \in hit}
        bad == {o \in new : OrderRowViolation(o, items) # ""}
    IN  IF bad # {}
        THEN [err |-> OrderRowViolation(CHOOSE o \in bad : TRUE, items),
              orders |-> ords]
        ELSE [err |-> "", orders |-> (ords \ hit) \cup new]

\* update_order_total with an exception handler that swallows the error of
\* its UPDATE
update_order_total_Swallow(ords, items, oid) ==
    LET hit == {o \in ords : o.id = oid}
        new == {OrderTotalRow(o, items) : o \in hit}
        bad == {o \in new : OrderRowViolation(o, items) # ""}
    IN  IF bad # {}
        THEN [err |-> "", orders |-> ords]
        ELSE [err |-> "", orders |-> (ords \ hit) \cup new]

\* update_order_total whose UPDATE has no WHERE clause: every order is
\* recalculated and stamped
update_order_total_EveryOrder(ords, items, oid) ==
    LET new == {OrderTotalRow(o, items) : o \in ords}
        bad == {o \in new : OrderRowViolation(o, items) # ""}
    IN  IF bad # {}
        THEN [err |-> OrderRowViolation(CHOOSE o \in bad : TRUE, items),
              orders |-> ords]
        ELSE [err |-> "", orders |-> new]

\* app.update_order_total() fired for one order_items row whose order
\* reference is oid = COALESCE(NEW.order_id, OLD.order_id): the UPDATE of
\* app.orders WHERE id = oid.  Result: the error raised ("" for none) and
\* the orders table after it.  For each row the UPDATE finds it calls
\* app.calculate_order_total, whose SELECT ... INTO v_total NUMERIC(12, 2)
\* raises when the sum does not fit.
update_order_total(ords, items, oid) ==
    LET hit == {o \in ords : o.id = oid}
        new == {OrderTotalRow(o, items) : o \in hit}
        bad == {o \in new : OrderRowViolation(o, items) # ""}
    IN  IF hit # {} /\ ~FitsNumeric12_2(calculate_order_total(items, oid))
        THEN [err |-> "numeric_field_overflow", orders |-> ords]
        ELSE IF bad # {}
        THEN [err |-> OrderRowViolation(CHOOSE o \in bad : TRUE, items),
              orders |-> ords]
        ELSE [err |-> "", orders |-> (ords \ hit) \cup new]

-----------------------------------------------------------------------------
(* Statements on app.order_items.  Each Exec operator is the statement as  *)
(* a function of the tables: the error raised ("" for none) and the tables *)
(* the statement leaves.                                                   *)

Raise(e) == [err |-> e, orders |-> orders, items |-> order_items]

\* INSERT INTO app.order_items VALUES (r)
ExecInsertItem(r) ==
    IF ItemRowViolation(r) # "" THEN Raise(ItemRowViolation(r))
    ELSE IF \E x \in order_items : x.id = r.id THEN Raise("order_items_pkey")
    ELSE IF ~unique_order_item_number(order_items, r)
        THEN Raise("unique_order_item_number")
    ELSE IF ~\E o \in orders : o.id = r.order_id
        THEN Raise("order_items_order_id_fkey")
    ELSE LET items2 == order_items \cup {r}
             t == update_order_total(orders, items2, r.order_id)
         IN  IF t.err # "" THEN Raise(t.err)
             ELSE [err |-> "", orders |-> t.orders, items |-> items2]

\* UPDATE app.order_items SET (columns of r) WHERE id = r.id
ExecUpdateItem(r) ==
    LET old == {x \in order_items : x.id = r.id}
    IN  IF old = {} THEN [err |-> "", orders |-> orders, items |-> order_items]
        ELSE IF ItemRowViolation(r) # "" THEN Raise(ItemRowViolation(r))
        ELSE IF ~unique_order_item_number(order_items, r)
            THEN Raise("unique_order_item_number")
        ELSE IF ~\E o \in orders : o.id = r.order_id
            THEN Raise("order_items_order_id_fkey")
        ELSE LET items2 == (order_items \ old) \cup {r}
                 t == update_order_total(orders, items2, r.order_id)
             IN  IF t.err # "" THEN Raise(t.err)
                 ELSE [err |-> "", orders |-> t.orders, items |-> items2]

\* DELETE FROM app.order_items WHERE id = id
ExecDeleteItem(id) ==
    LET old == {x \in order_items : x.id = id}
    IN  IF old = {} THEN [err |-> "", orders |-> orders, items |-> order_items]
        ELSE LET o1 == CHOOSE x \in old : TRUE
                 items2 == order_items \ old
                 t == update_order_total(orders, items2, o1.order_id)
             IN  IF t.err # "" THEN Raise(t.err)
                 ELSE [err |-> "", orders |-> t.orders, items |-> items2]

-----------------------------------------------------------------------------
(* Statements on app.orders *)

OrderColumns ==
    {"id", "order_number", "status", "total_amount", "processed_at",
     "confirmed_at", "shipped_at", "delivered_at", "cancelled_at",
     "updated_at"}

\* the row an UPDATE ... SET (columns of p) makes of row o
Patched(o, p) ==
    [c \in OrderColumns |-> IF c \in DOMAIN p THEN p[c] ELSE o[c]]

\* INSERT INTO app.orders VALUES (r), order_number given explicitly
ExecInsertOrder(r) ==
    IF OrderRowViolation(r, order_items) # ""
        THEN Raise(OrderRowViolation(r, order_items))
    ELSE IF \E o \in orders : o.id = r.id THEN Raise("orders_pkey")
    ELSE IF \E o \in orders : o.order_number = r.order_number
        THEN Raise("orders_order_number_key")
    ELSE [err |-> "", orders |-> orders \cup {r}, items |-> order_items]

\* UPDATE app.orders SET (columns of p) WHERE id = id
ExecUpdateOrder(id, p) ==
    LET old == {o \in orders : o.id = id}
    IN  IF old = {} THEN [err |-> "", orders |-> orders, items |-> order_items]
        ELSE LET o1 == CHOOSE o \in old : TRUE
                 new == update_updated_at_column(Patched(o1, p))
             IN  IF OrderRowViolation(new, order_items) # ""
                     THEN Raise(OrderRowViolation(new, order_items))
                 ELSE IF \E o \in orders \ old : o.id = new.id
                     THEN Raise("orders_pkey")
                 ELSE IF \E o \in orders \ old :
                             o.order_number = new.order_number
                     THEN Raise("orders_order_number_key")
                 ELSE IF new.id # id /\ ItemsOf(order_items, id) # {}
                     THEN Raise("order_items_order_id_fkey")
                 ELSE [err |-> "", orders |-> (orders \ old) \cup {new},
                       items |-> order_items]

\* update_order_total_on_delete fired for each row of rows, the rows a
\* DELETE has removed; items is the table without them
RECURSIVE DeleteTriggers(_, _, _)
DeleteTriggers(ords, items, rows) ==
    IF rows = {} THEN [err |-> "", orders |-> ords]
    ELSE LET x == CHOOSE y \in rows : TRUE
             t == update_order_total(ords, items, x.order_id)
         IN  IF t.err # "" THEN t
             ELSE DeleteTriggers(t.orders, items, rows \ {x})

\* ExecDeleteOrder with a foreign key that does nothing on delete
ExecDeleteOrder_NoCascade(id) ==
    [err |-> "", orders |-> {o \in orders : o.id # id}, items |-> order_items]

\* DELETE FROM app.orders WHERE id = id.  The foreign key of order_items
\* is ON DELETE CASCADE: once the order row is gone its items are deleted,
\* and the delete trigger fires for each of them.
ExecDeleteOrder(id) ==
    LET orders2 == {o \in orders : o.id # id}
        gone == ItemsOf(order_items, id)
        items2 == order_items \ gone
        t == DeleteTriggers(orders2, items2, gone)
    IN  IF t.err # "" THEN Raise(t.err)
        ELSE [err |-> "", orders |-> t.orders, items |-> items2]

-----------------------------------------------------------------------------
(* Inputs of the statements *)

Quantities == {0, 1, 2}
UnitPrices == {-1, 1}
TotalPrices == {1, 2}

\* the rows of a client that numbers each item of an order differently:
\* here, with the number of its id
OwnNumber(rows) == {r \in rows : r.item_number = r.id}

\* rows with every amount given, and rows with discount_amount given as NULL
ItemInputs ==
    OwnNumber(
        [id : ItemIds, order_id : OrderIds, item_number : ItemIds,
         quantity : Quantities, unit_price : UnitPrices,
         discount_amount : {V(0)}, tax_amount : {V(0)},
         total_price : TotalPrices]
        \cup
        [id : ItemIds, order_id : OrderIds, item_number : ItemIds,
         quantity : {0, 1}, unit_price : {-1, 1}, discount_amount : {NULL},
         tax_amount : {V(0)}, total_price : {2}])

\* a new order row; created_at/updated_at take their DEFAULT
NewOrder(id, num, st, total, stamped) ==
    [id |-> id, order_number |-> num, status |-> st, total_amount |-> total,
     processed_at |-> IF "processed_at" \in stamped THEN V(now) ELSE NULL,
     confirmed_at |-> IF "confirmed_at" \in stamped THEN V(now) ELSE NULL,
     shipped_at |-> IF "shipped_at" \in stamped THEN V(now) ELSE NULL,
     delivered_at |-> IF "delivered_at" \in stamped THEN V(now) ELSE NULL,
     cancelled_at |-> IF "cancelled_at" \in stamped THEN V(now) ELSE NULL,
     updated_at |-> now]

\* orders as the item-focused specification inserts and updates them
OrderInputs ==
    {NewOrder(i, i, st, t, {}) :
        i \in OrderIds, st \in {"pending", "failed"},
        t \in {NULL, V(0), V(1)}}

OrderPatches ==
    {[status |-> "pending"],
     [status |-> "failed"],
     [total_amount |-> V(1)]}

-----------------------------------------------------------------------------
(* The sequential specification: one session, every statement its own      *)
(* transaction                                                             *)

Commit(op, res) ==
    /\ orders' = res.orders
    /\ order_items' = res.items
    /\ last' = [op |-> op, err |-> res.err]
    /\ UNCHANGED <<now, clock, engine, aws, cdk, tx, gen>>

InsertOrder(rows) == \E r \in rows : Commit("insert_order", ExecInsertOrder(r))

UpdateOrder(patches) ==
    \E id \in OrderIds, p \in patches :
        Commit("update_order", ExecUpdateOrder(id, p))

InsertItem(rows) ==
    \E r \in rows :
        /\ Cardinality(order_items) < MaxItems
        /\ Commit("insert_item", ExecInsertItem(r))

UpdateItem(rows) == \E r \in rows : Commit("update_item", ExecUpdateItem(r))

DeleteItem ==
    \E x \in order_items : Commit("delete_item", ExecDeleteItem(x.id))

\* the statement is recorded as "delete_order_cascade" when the order had
\* items for the cascade to remove
DeleteOrder ==
    \E o \in orders :
        Commit(IF ItemsOf(order_items, o.id) # {} THEN "delete_order_cascade"
               ELSE "delete_order",
               ExecDeleteOrder(o.id))

IdleSessions == [s \in Sessions |-> [pc |-> "idle"]]

\* no CDK app has been started
NotSynthesized == [pc |-> "none"]

\* no stack has been deployed
NotDeployed == [pc |-> "none"]

Init ==
    /\ orders = {}
    /\ order_items = {}
    /\ now = 0
    /\ clock = 0
    /\ engine \in [subquery_check : BOOLEAN, variable_conflict : {"error"}]
    /\ last = [op |-> "none", err |-> ""]
    /\ tx = IdleSessions
    /\ gen = IdleSessions
    /\ cdk = NotSynthesized
    /\ aws = NotDeployed

Next ==
    \/ InsertOrder(OrderInputs)
    \/ UpdateOrder(OrderPatches)
    \/ InsertItem(ItemInputs)
    \/ UpdateItem(ItemInputs)
    \/ DeleteItem

Spec == Init /\ [][Next]_vars

-----------------------------------------------------------------------------
(* The status specification: one order taken through every status, with    *)
(* and without the timestamp of the status, and timestamps cleared again   *)

\* the timestamp column that records status st; "" for a status with none
TimestampOf(st) ==
    CASE st = "processing" -> "processed_at"
      [] st = "confirmed" -> "confirmed_at"
      [] st = "shipped" -> "shipped_at"
      [] st = "delivered" -> "delivered_at"
      [] st = "cancelled" -> "cancelled_at"
      [] OTHER -> ""

LifecycleOrders ==
    {NewOrder(2, 2, st, V(0), ts) :
        st \in OrderStatus, ts \in {{}, {"processed_at"}, {"delivered_at"}}}

LifecyclePatches ==
    {[status |-> st] : st \in OrderStatus}
    \cup {[status |-> "processing", processed_at |-> V(now)],
          [status |-> "confirmed", confirmed_at |-> V(now)],
          [status |-> "shipped", shipped_at |-> V(now)],
          [status |-> "delivered", delivered_at |-> V(now)],
          [status |-> "cancelled", cancelled_at |-> V(now)]}
    \cup {[processed_at |-> NULL], [confirmed_at |-> NULL],
          [shipped_at |-> NULL], [delivered_at |-> NULL],
          [cancelled_at |-> NULL]}

LifecycleItems ==
    OwnNumber(
        [id : {2, 3}, order_id : {2}, item_number : {2, 3}, quantity : {1},
         unit_price : {1}, discount_amount : {V(0)}, tax_amount : {V(0)},
         total_price : {1}])

NextStatus ==
    \/ InsertOrder(LifecycleOrders)
    \/ UpdateOrder(LifecyclePatches)
    \/ InsertItem(LifecycleItems)
    \/ DeleteItem

SpecStatus == Init /\ [][NextStatus]_vars

-----------------------------------------------------------------------------
(* app.generate_order_number() and the INSERT that takes it as the DEFAULT *)
(* of order_number.  The function is a loop of two statements, and other   *)
(* sessions' statements run between them.                                  *)

OrderNumbers == 0 .. MaxOrderNumber

\* the check passes for every candidate
OrderNumberExists_Never(order_number) == FALSE

\* SELECT EXISTS(SELECT 1 FROM app.orders WHERE order_number = order_number):
\* order_number names both the function's variable and the column.  Under
\* plpgsql.variable_conflict = use_variable both sides are the variable,
\* under use_column both are the column.
OrderNumberExists(order_number) ==
    IF engine.variable_conflict = "use_variable"
    THEN \E o \in orders : order_number = order_number
    ELSE \E o \in orders : o.order_number = o.order_number

\* session s starts INSERT INTO app.orders without an order_number: the
\* DEFAULT is evaluated, the loop is entered and draws its first number
GenBegin(s) ==
    /\ gen[s].pc = "idle"
    /\ \E id \in OrderIds, n \in OrderNumbers :
          gen' = [gen EXCEPT ![s] = [pc |-> "loop", id |-> id, order_number |-> n]]
    /\ UNCHANGED <<orders, order_items, now, clock, engine, aws, cdk, last, tx>>

\* the existence check and EXIT WHEN NOT exists, then either RETURN or the
\* next draw.  Under variable_conflict = error the query is rejected as
\* ambiguous and the INSERT fails.
GenCheck(s) ==
    /\ gen[s].pc = "loop"
    /\ IF engine.variable_conflict = "error"
       THEN /\ gen' = [gen EXCEPT ![s] = [pc |-> "idle"]]
            /\ last' = [op |-> "insert_order_default", err |-> "ambiguous_column"]
       ELSE /\ last' = last
            /\ IF ~OrderNumberExists(gen[s].order_number)
               THEN gen' = [gen EXCEPT ![s].pc = "returned"]
               ELSE \E n \in OrderNumbers :
                        gen' = [gen EXCEPT ![s].order_number = n]
    /\ UNCHANGED <<orders, order_items, now, clock, engine, aws, cdk, tx>>

\* the INSERT writes its row with the number the function returned
GenInsert(s) ==
    /\ gen[s].pc = "returned"
    /\ LET res == ExecInsertOrder(
                     NewOrder(gen[s].id, gen[s].order_number, "pending", V(0), {}))
       IN  /\ orders' = res.orders
           /\ last' = [op |-> "insert_order_default", err |-> res.err]
    /\ gen' = [gen EXCEPT ![s] = [pc |-> "idle"]]
    /\ UNCHANGED <<order_items, now, clock, engine, aws, cdk, tx>>

\* orders inserted with an explicit order_number
NumberedOrders ==
    {NewOrder(i, n, "pending", V(0), {}) : i \in OrderIds, n \in OrderNumbers}

InitGen ==
    /\ orders = {}
    /\ order_items = {}
    /\ now = 0
    /\ clock = 0
    /\ engine \in [subquery_check : {FALSE},
                    variable_conflict : {"error", "use_variable", "use_column"}]
    /\ last = [op |-> "none", err |-> ""]
    /\ tx = IdleSessions
    /\ gen = IdleSessions
    /\ cdk = NotSynthesized
    /\ aws = NotDeployed

NextGen ==
    \/ \E s \in Sessions : GenBegin(s)
    \/ \E s \in Sessions : GenCheck(s)
    \/ \E s \in Sessions : GenInsert(s)
    \/ InsertOrder(NumberedOrders)

SpecGen == InitGen /\ [][NextGen]_vars

\* every order takes the DEFAULT of order_number: the only statements are
\* INSERTs whose number comes from app.generate_order_number()
NextDefault ==
    \/ \E s \in Sessions : GenBegin(s)
    \/ \E s \in Sessions : GenCheck(s)
    \/ \E s \in Sessions : GenInsert(s)

SpecDefault == InitGen /\ [][NextDefault]_vars

\* the scheduling of a call in progress: a session that is inside the loop
\* runs its next check, a session whose function returned runs its INSERT,
\* and RANDOM() gives every number a positive chance at every draw, so a
\* loop that keeps drawing draws each number again and again
FairDefault ==
    \A s \in Sessions :
        /\ WF_vars(GenCheck(s))
        /\ WF_vars(GenInsert(s))
        /\ \A n \in OrderNumbers :
              SF_vars(GenCheck(s) /\ gen'[s].pc = "loop"
                                  /\ gen'[s].order_number = n)

SpecDefaultFair == InitGen /\ [][NextDefault]_vars /\ FairDefault

-----------------------------------------------------------------------------
(* Concurrent sessions under READ COMMITTED, each running one statement on *)
(* app.order_items in a transaction of its own.  orders and order_items    *)
(* hold the committed rows; tx[s] holds what session s has written and not *)
(* yet committed.  The trigger's UPDATE of app.orders takes its snapshot   *)
(* when it starts and then locks the order row; when another session holds *)
(* the lock it waits, and after the holder commits it updates the newest   *)
(* row version.  app.calculate_order_total is STABLE, so it reads          *)
(* order_items through the snapshot of the UPDATE that calls it, also when *)
(* the UPDATE resumes after the wait.                                      *)

Open(s) == tx[s].pc \in {"waiting", "written"}

\* the order rows locked by sessions that have written them
LockedOrders == {tx[s].order_id : s \in {u \in Sessions : tx[u].pc = "written"}}

\* the item rows touched by open transactions
LockedItems == {tx[s].item_id : s \in {u \in Sessions : Open(u)}}

\* order_items with the row change ch of one statement applied
Applied(items, ch) ==
    {x \in items : x.id # ch.item_id}
    \cup (IF ch.kind = "delete" THEN {} ELSE {ch.row})

\* statements that keep the row in its order: INSERT of row r, UPDATE to r
\* of the row with r's id, DELETE of the row with r's id
TxChanges ==
    {[kind |-> k, item_id |-> r.id, order_id |-> r.order_id, row |-> r] :
        k \in {"insert", "update", "delete"},
        r \in OwnNumber(
                 [id : ItemIds, order_id : {1}, item_number : ItemIds,
                  quantity : {0, 1, 2}, unit_price : {1},
                  discount_amount : {V(0)}, tax_amount : {V(0)},
                  total_price : {1, 2}])}

\* the row change of ch is accepted on the committed order_items
ChangeApplies(ch) ==
    LET there == \E x \in order_items : x.id = ch.item_id
    IN  CASE ch.kind = "insert" ->
                /\ ~there
                /\ ItemRowViolation(ch.row) = ""
                /\ unique_order_item_number(order_items, ch.row)
                /\ \E o \in orders : o.id = ch.order_id
          [] ch.kind = "update" ->
                /\ \E x \in order_items :
                       x.id = ch.item_id /\ x.order_id = ch.order_id
                /\ ItemRowViolation(ch.row) = ""
                /\ unique_order_item_number(order_items, ch.row)
          [] ch.kind = "delete" ->
                \E x \in order_items :
                    x.id = ch.item_id /\ x.order_id = ch.order_id

\* session s runs the statement: the row change, then the trigger's UPDATE
\* takes its snapshot and either locks and writes the order row or waits
TxStatement(s) ==
    /\ tx[s].pc = "idle"
    /\ \E ch \in TxChanges :
          /\ ch.item_id \notin LockedItems
          /\ ChangeApplies(ch)
          /\ LET snap == Applied(order_items, ch)
                 t == update_order_total(orders, snap, ch.order_id)
             IN  IF ch.order_id \in LockedOrders
                 THEN tx' = [tx EXCEPT ![s] =
                                [pc |-> "waiting", item_id |-> ch.item_id,
                                 order_id |-> ch.order_id, change |-> ch,
                                 snapshot |-> snap, order_rows |-> {}]]
                 ELSE /\ t.err = ""
                      /\ tx' = [tx EXCEPT ![s] =
                                [pc |-> "written", item_id |-> ch.item_id,
                                 order_id |-> ch.order_id, change |-> ch,
                                 snapshot |-> snap,
                                 order_rows |->
                                     {o \in t.orders : o.id = ch.order_id}]]
    /\ UNCHANGED <<orders, order_items, now, clock, engine, aws, cdk, last, gen>>

\* the lock is free again: the waiting UPDATE takes the newest committed
\* order row and computes its SET list through its own snapshot
TxResume(s) ==
    /\ tx[s].pc = "waiting"
    /\ tx[s].order_id \notin LockedOrders
    /\ LET t == update_order_total(orders, tx[s].snapshot, tx[s].order_id)
       IN  /\ t.err = ""
           /\ tx' = [tx EXCEPT ![s].pc = "written",
                               ![s].order_rows =
                                   {o \in t.orders : o.id = tx[s].order_id}]
    /\ UNCHANGED <<orders, order_items, now, clock, engine, aws, cdk, last, gen>>

\* COMMIT: the written rows become the committed ones, the lock is released
TxCommit(s) ==
    /\ tx[s].pc = "written"
    /\ order_items' = Applied(order_items, tx[s].change)
    /\ orders' = {o \in orders : o.id # tx[s].order_id} \cup tx[s].order_rows
    /\ tx' = [tx EXCEPT ![s] = [pc |-> "idle"]]
    /\ last' = [op |-> tx[s].change.kind \o "_item", err |-> ""]
    /\ UNCHANGED <<now, clock, engine, aws, cdk, gen>>

\* one order, created with no items and total_amount 0
InitTx ==
    /\ now = 0
    /\ clock = 0
    /\ orders = {NewOrder(1, 1, "pending", V(0), {})}
    /\ order_items = {}
    /\ engine \in [subquery_check : BOOLEAN, variable_conflict : {"error"}]
    /\ last = [op |-> "none", err |-> ""]
    /\ tx = IdleSessions
    /\ gen = IdleSessions
    /\ cdk = NotSynthesized
    /\ aws = NotDeployed

NextTx ==
    \/ \E s \in Sessions : TxStatement(s)
    \/ \E s \in Sessions : TxResume(s)
    \/ \E s \in Sessions : TxCommit(s)

SpecTx == InitTx /\ [][NextTx]_vars

-----------------------------------------------------------------------------
(* Transactions and the clock.  CURRENT_TIMESTAMP is the time the          *)
(* transaction began, not the time the statement runs.  A session begins a *)
(* transaction, the clock and other sessions go on, and later the session  *)
(* runs its item statements and commits.  One transaction executes at a    *)
(* time, so no two of them overlap in what they write.                     *)

Tick ==
    /\ clock < MaxTime
    /\ clock' = clock + 1
    /\ UNCHANGED <<orders, order_items, now, engine, aws, cdk, last, tx, gen>>

\* BEGIN
TxBegin(s) ==
    /\ tx[s].pc = "idle"
    /\ tx' = [tx EXCEPT ![s] = [pc |-> "begun", start |-> clock]]
    /\ UNCHANGED <<orders, order_items, now, clock, engine, aws, cdk, last, gen>>

Executing == {s \in Sessions : tx[s].pc = "executing"}

\* session s sends its first statement: from here to its COMMIT the
\* statements the server runs are those of s
TxExecute(s) ==
    /\ tx[s].pc = "begun"
    /\ Executing = {}
    /\ tx' = [tx EXCEPT ![s].pc = "executing"]
    /\ now' = tx[s].start
    /\ UNCHANGED <<orders, order_items, clock, engine, aws, cdk, last, gen>>

\* COMMIT
TxEnd(s) ==
    /\ tx[s].pc = "executing"
    /\ tx' = [tx EXCEPT ![s] = [pc |-> "idle"]]
    /\ UNCHANGED <<orders, order_items, now, clock, engine, aws, cdk, last, gen>>

ClockItems ==
    OwnNumber(
        [id : ItemIds, order_id : OrderIds, item_number : ItemIds,
         quantity : {1}, unit_price : {1}, discount_amount : {V(0)},
         tax_amount : {V(0)}, total_price : {1}])

\* two orders created at time 0
InitClock ==
    /\ now = 0
    /\ clock = 0
    /\ orders = {NewOrder(i, i, "pending", V(0), {}) : i \in OrderIds}
    /\ order_items = {}
    /\ engine \in [subquery_check : {FALSE}, variable_conflict : {"error"}]
    /\ last = [op |-> "none", err |-> ""]
    /\ tx = IdleSessions
    /\ gen = IdleSessions
    /\ cdk = NotSynthesized
    /\ aws = NotDeployed

NextClock ==
    \/ Tick
    \/ \E s \in Sessions : TxBegin(s)
    \/ \E s \in Sessions : TxExecute(s)
    \/ \E s \in Sessions : TxEnd(s)
    \/ Executing # {} /\ InsertItem(ClockItems)
    \/ Executing # {} /\ UpdateItem(ClockItems)
    \/ Executing # {} /\ DeleteItem

SpecClock == InitClock /\ [][NextClock]_vars

\* one session whose statements are each a transaction of their own, begun
\* at the time the statement is sent
Advance ==
    /\ clock < MaxTime
    /\ clock' = clock + 1
    /\ now' = clock + 1
    /\ UNCHANGED <<orders, order_items, engine, aws, cdk, last, tx, gen>>

NextFrame ==
    \/ Advance
    \/ InsertItem(ClockItems)
    \/ UpdateItem(ClockItems)
    \/ DeleteItem

SpecFrame == InitClock /\ [][NextFrame]_vars

-----------------------------------------------------------------------------
(* The key specification: primary keys, the foreign key of order_items with *)
(* its cascade, and unique_order_item_number.  Clients choose item numbers  *)
(* freely, move items between orders, renumber orders and delete them.      *)

ItemNumbers == {1, 2}

KeyItems ==
    [id : ItemIds, order_id : OrderIds, item_number : ItemNumbers,
     quantity : {1}, unit_price : {1}, discount_amount : {V(0)},
     tax_amount : {V(0)}, total_price : {1}]

KeyOrders ==
    {NewOrder(i, i, st, V(0), {}) : i \in OrderIds, st \in {"pending", "failed"}}

\* UPDATE app.orders SET id = ...
KeyPatches == {[id |-> i] : i \in OrderIds}

NextKeys ==
    \/ InsertOrder(KeyOrders)
    \/ UpdateOrder(KeyPatches)
    \/ DeleteOrder
    \/ InsertItem(KeyItems)
    \/ UpdateItem(KeyItems)
    \/ DeleteItem

SpecKeys == Init /\ [][NextKeys]_vars

-----------------------------------------------------------------------------
(* The overflow specification: items priced at and next to the largest     *)
(* amount their NUMERIC(12, 2) columns hold                                *)

LargePrices == {1, NumericMax - 1, NumericMax}

LargeItems ==
    {[id |-> i, order_id |-> o, item_number |-> i, quantity |-> 1,
      unit_price |-> p, discount_amount |-> V(0), tax_amount |-> V(0),
      total_price |-> p] : i \in ItemIds, o \in OrderIds, p \in LargePrices}

LargeOrders == {NewOrder(i, i, "pending", V(0), {}) : i \in OrderIds}

NextOverflow ==
    \/ InsertOrder(LargeOrders)
    \/ InsertItem(LargeItems)
    \/ UpdateItem(LargeItems)
    \/ DeleteItem

SpecOverflow == Init /\ [][NextOverflow]_vars

-----------------------------------------------------------------------------
(* The CDK apps.  JavaScript values: a string is Str(s), undefined is the  *)
(* empty tuple.                                                            *)

undefined == <<>>
Str(s) == <<s>>

\* what if (v), v && x and v ? a : b take a string or undefined for
Truthy(v) == v # undefined /\ v # Str("")

EnvVars == {"ENABLE_PERFORMANCE_INSIGHTS", "PERFORMANCE_INSIGHTS_LONG_TERM"}

\* dotenv.config({ path: .env.<environment> }): the variables of the file
\* are added to process.env; a variable process.env has keeps its value
dotenv_config(process_env, file) ==
    [k \in EnvVars |->
        IF process_env[k] # undefined THEN process_env[k] ELSE file[k]]

\* parseBoolean comparing without regard to case
parseBoolean_IgnoreCase(value, defaultValue) ==
    IF value = undefined THEN defaultValue
    ELSE value \in {Str("true"), Str("TRUE")}

parseBoolean(value, defaultValue) ==
    IF value = undefined THEN defaultValue ELSE value = Str("true")

\* loadSharedConfig(environment), after its dotenv.config: the fields of
\* SharedInfraConfig the constructs below read
loadSharedConfig(environment, process_env) ==
    [environment |-> environment,
     enablePerformanceInsights |->
         parseBoolean(process_env["ENABLE_PERFORMANCE_INSIGHTS"],
                      environment = "prod"),
     performanceInsightsLongTerm |->
         parseBoolean(process_env["PERFORMANCE_INSIGHTS_LONG_TERM"], FALSE)]

(* Security group rules.  A peer is ec2.Peer.anyIpv4(), ec2.Peer.ipv4 of a *)
(* subnet's CIDR block, or ec2.Peer.securityGroupId of a group.            *)

anyIpv4 == [kind |-> "anyIpv4"]
ipv4(subnet) == [kind |-> "ipv4", subnet |-> subnet]
securityGroupId(group) == [kind |-> "securityGroupId", group |-> group]

IngressRule(group, peer, port) == [group |-> group, peer |-> peer, port |-> port]

\* allowAllOutbound: true gives the group one rule for all traffic to
\* anywhere; false gives it no rule that lets traffic out
Egress(group, allowAllOutbound) ==
    IF allowAllOutbound THEN {[group |-> group, peer |-> anyIpv4]} ELSE {}

\* VpcConstruct: one subnet of each of the three types per availability zone
VpcConstruct(props) ==
    [publicSubnets |-> {[type |-> "Public", az |-> z] : z \in 1 .. props.maxAzs},
     privateSubnets |-> {[type |-> "Private", az |-> z] : z \in 1 .. props.maxAzs},
     isolatedSubnets |-> {[type |-> "Isolated", az |-> z] : z \in 1 .. props.maxAzs}]

\* DatabaseConstruct that opens the database to the public subnets
DatabaseConstruct_PublicSubnets(props) ==
    [ingress |-> {IngressRule("RdsSecurityGroup", ipv4(sn), 5432) :
                      sn \in props.vpc.publicSubnets},
     egress |-> Egress("RdsSecurityGroup", FALSE),
     instance |->
         [subnetType |-> "Isolated",
          enablePerformanceInsights |-> props.enablePerformanceInsights,
          performanceInsightRetention |->
              IF props.enablePerformanceInsights
              THEN IF props.performanceInsightsLongTerm
                   THEN Str("LONG_TERM") ELSE Str("DEFAULT")
              ELSE undefined]]

\* DatabaseConstruct: the security group of the database, and the instance
\* with its Performance Insights settings
DatabaseConstruct(props) ==
    [ingress |-> {IngressRule("RdsSecurityGroup", ipv4(sn), 5432) :
                      sn \in props.vpc.privateSubnets},
     egress |-> Egress("RdsSecurityGroup", FALSE),
     instance |->
         [subnetType |-> "Isolated",
          enablePerformanceInsights |-> props.enablePerformanceInsights,
          performanceInsightRetention |->
              IF props.enablePerformanceInsights
              THEN IF props.performanceInsightsLongTerm
                   THEN Str("LONG_TERM") ELSE Str("DEFAULT")
              ELSE undefined]]

fixedResponse == [type |-> "fixed-response", statusCode |-> 200]
redirect == [type |-> "redirect", protocol |-> "HTTPS", port |-> "443",
             permanent |-> TRUE]

\* AlbConstruct that makes the HTTPS listener for every certificateArn that
\* is not undefined
AlbConstruct_Defined(props) ==
    [ingress |->
         {IngressRule("AlbSecurityGroup", anyIpv4, 80)}
         \cup (IF props.certificateArn # undefined
               THEN {IngressRule("AlbSecurityGroup", anyIpv4, 443)} ELSE {}),
     egress |-> Egress("AlbSecurityGroup", TRUE),
     listeners |->
         IF props.certificateArn # undefined
         THEN {[id |-> "HttpsListener", port |-> 443, protocol |-> "HTTPS",
                defaultAction |-> fixedResponse],
               [id |-> "HttpListener", port |-> 80, protocol |-> "HTTP",
                defaultAction |-> redirect]}
         ELSE {[id |-> "HttpListener", port |-> 80, protocol |-> "HTTP",
                defaultAction |-> fixedResponse]}]

\* AlbConstruct: the security group of the load balancer and its listeners.
\* addListener opens the group to anyone on the listener's port, which adds
\* no rule the explicit addIngressRule calls have not added.
AlbConstruct(props) ==
    [ingress |->
         {IngressRule("AlbSecurityGroup", anyIpv4, 80)}
         \cup (IF Truthy(props.certificateArn)
               THEN {IngressRule("AlbSecurityGroup", anyIpv4, 443)} ELSE {}),
     egress |-> Egress("AlbSecurityGroup", TRUE),
     listeners |->
         IF Truthy(props.certificateArn)
         THEN {[id |-> "HttpsListener", port |-> 443, protocol |-> "HTTPS",
                defaultAction |-> fixedResponse],
               [id |-> "HttpListener", port |-> 80, protocol |-> "HTTP",
                defaultAction |-> redirect]}
         ELSE {[id |-> "HttpListener", port |-> 80, protocol |-> "HTTP",
                defaultAction |-> fixedResponse]}]

\* EcsServiceConstruct: the security group of the tasks.  Attaching the
\* service to the target group of the imported listener allows the same
\* traffic again: from the load balancer's group to the container port.
EcsServiceConstruct(props) ==
    [ingress |-> {IngressRule("ServiceSecurityGroup",
                              securityGroupId(props.albSecurityGroupId),
                              props.containerPort)},
     egress |-> Egress("ServiceSecurityGroup", TRUE),
     service |-> [subnetType |-> "Private"]]

-----------------------------------------------------------------------------
(* Synthesis: bin/infrastructure-shared loads the configuration and builds *)
(* InfrastructureSharedStack construct by construct, then                  *)
(* MicroserviceOrderProcessorStack builds the service against the exported *)
(* load balancer.  The inputs are fixed when the run starts.               *)

MaxAzs == 2

Environments == {"prod", "staging", "dev", "production", "PROD"}
EnvValues == {undefined, Str("true"), Str("false"), Str("TRUE"), Str("")}
FileValues == {undefined, Str("true")}

SynthInputs ==
    [environment : Environments,
     process_env : [EnvVars -> EnvValues],
     file : [EnvVars -> FileValues],
     certificateArn : {undefined, Str(""), Str("arn:aws:acm:certificate/1")},
     maxAzs : 1 .. MaxAzs,
     containerPort : {3000, 8080}]

Synthesized(pc, more) ==
    /\ cdk' = [cdk EXCEPT !.pc = pc] @@ more
    /\ UNCHANGED <<orders, order_items, now, clock, engine, aws, last, tx, gen>>

\* const config = loadSharedConfig(environment)
LoadSharedConfig ==
    /\ cdk.pc = "start"
    /\ LET env == dotenv_config(cdk.input.process_env, cdk.input.file)
       IN  Synthesized("config",
               [process_env |-> env,
                config |-> loadSharedConfig(cdk.input.environment, env)])

\* this.vpc = new VpcConstruct(...)
SynthVpc ==
    /\ cdk.pc = "config"
    /\ Synthesized("vpc", [vpc |-> VpcConstruct([maxAzs |-> cdk.input.maxAzs])])

\* this.database = new DatabaseConstruct(...)
SynthDatabase ==
    /\ cdk.pc = "vpc"
    /\ Synthesized("database",
           [database |->
               DatabaseConstruct(
                   [vpc |-> cdk.vpc,
                    enablePerformanceInsights |->
                        cdk.config.enablePerformanceInsights,
                    performanceInsightsLongTerm |->
                        cdk.config.performanceInsightsLongTerm])])

\* this.alb = new AlbConstruct(...)
SynthAlb ==
    /\ cdk.pc = "database"
    /\ Synthesized("alb",
           [alb |-> AlbConstruct([certificateArn |-> cdk.input.certificateArn])])

\* new EcsServiceConstruct(...) with the imported load balancer
SynthService ==
    /\ cdk.pc = "alb"
    /\ Synthesized("service",
           [service |->
               EcsServiceConstruct(
                   [albSecurityGroupId |-> "AlbSecurityGroup",
                    containerPort |-> cdk.input.containerPort])])

InitSynth ==
    /\ orders = {}
    /\ order_items = {}
    /\ now = 0
    /\ clock = 0
    /\ engine \in [subquery_check : {FALSE}, variable_conflict : {"error"}]
    /\ last = [op |-> "none", err |-> ""]
    /\ tx = IdleSessions
    /\ gen = IdleSessions
    /\ cdk \in {[pc |-> "start", input |-> i] : i \in SynthInputs}
    /\ aws = NotDeployed

NextSynth ==
    \/ LoadSharedConfig
    \/ SynthVpc
    \/ SynthDatabase
    \/ SynthAlb
    \/ SynthService

SpecSynth == InitSynth /\ [][NextSynth]_vars

\* every ingress and egress rule generated so far
Ingress ==
    (IF cdk.pc \in {"database", "alb", "service"} THEN cdk.database.ingress ELSE {})
    \cup (IF cdk.pc \in {"alb", "service"} THEN cdk.alb.ingress ELSE {})
    \cup (IF cdk.pc = "service" THEN cdk.service.ingress ELSE {})

-----------------------------------------------------------------------------
(* microservice-order-processor: the queue and autoscaling constructs, and *)
(* the stack they generate at run time.  A construct is the configuration  *)
(* it hands to SQS and CloudWatch; the actions are what those services do  *)
(* with that configuration.                                                *)

\* a number prop that is given
Num(n) == <<n>>

\* what v || d takes a number or undefined for
TruthyNumber(v) == v # undefined /\ v[1] # 0

\* a period for which the metric reported nothing
MissingData == <<>>

\* new cloudwatch.Alarm(...) with the props given and the defaults of the
\* props left out: datapointsToAlarm is evaluationPeriods, no alarm action
Alarm(props) ==
    [datapointsToAlarm |-> props.evaluationPeriods, alarmActions |-> {}] @@ props

\* alarm.addAlarmAction(new cloudwatch_actions.SnsAction(topic))
addAlarmAction(alarm, topic) ==
    [alarm EXCEPT !.alarmActions = @ \cup {topic}]

\* QueueConstruct.createAlarms, the dead-letter queue alarm
createAlarms(props) ==
    LET dlqAlarm ==
            Alarm([metric |-> "ApproximateNumberOfMessagesVisible",
                   threshold |-> 1,
                   evaluationPeriods |-> 1,
                   comparisonOperator |-> "GreaterThanOrEqualToThreshold",
                   treatMissingData |-> "notBreaching"])
    IN  IF Truthy(props.alarmTopic)
        THEN addAlarmAction(dlqAlarm, props.alarmTopic)
        ELSE dlqAlarm

\* QueueConstruct that never connects its alarms to the topic
QueueConstruct_NoAlarmAction(props) ==
    [queue |-> [deadLetterQueue |->
                   [maxReceiveCount |->
                       IF TruthyNumber(props.maxReceiveCount)
                       THEN props.maxReceiveCount[1] ELSE 3]],
     dlqAlarm |-> createAlarms([props EXCEPT !.alarmTopic = undefined])]

\* new QueueConstruct(scope, id, props): the main queue with its redrive
\* policy, and the alarm on the dead-letter queue
QueueConstruct(props) ==
    [queue |-> [deadLetterQueue |->
                   [maxReceiveCount |->
                       IF TruthyNumber(props.maxReceiveCount)
                       THEN props.maxReceiveCount[1] ELSE 3]],
     dlqAlarm |-> createAlarms(props)]

\* CloudWatch: value x against the alarm's threshold
Compare(alarm, x) ==
    CASE alarm.comparisonOperator = "GreaterThanOrEqualToThreshold"
            -> x >= alarm.threshold
      [] alarm.comparisonOperator = "GreaterThanThreshold"
            -> x > alarm.threshold

\* CloudWatch: datapoint d counts towards ALARM
Breaching(alarm, d) ==
    IF d = MissingData THEN alarm.treatMissingData = "breaching"
    ELSE Compare(alarm, d[1])

\* the datapoints of the alarm's evaluation periods, the latest last; a
\* period before the first datapoint is missing
Evaluated(alarm, datapoints) ==
    [i \in 1 .. alarm.evaluationPeriods |->
        LET k == Len(datapoints) - alarm.evaluationPeriods + i
        IN  IF k >= 1 THEN datapoints[k] ELSE MissingData]

\* CloudWatch: the state the alarm takes when it is evaluated over datapoints
AlarmState(alarm, datapoints) ==
    LET w == Evaluated(alarm, datapoints)
    IN  IF Cardinality({i \in DOMAIN w : Breaching(alarm, w[i])})
               >= alarm.datapointsToAlarm
        THEN "ALARM" ELSE "OK"

\* the topics an alarm notifies when it goes from state old to state new
Notified(alarm, old, new) ==
    IF new = "ALARM" /\ old # "ALARM" THEN alarm.alarmActions ELSE {}

MaxMessages == 2
Messages == 1 .. MaxMessages

QueueInputs ==
    [maxReceiveCount : {undefined, Num(1), Num(2)},
     alarmTopic : {undefined, Str("order-processor-alarms")}]

\* const queue = new QueueConstruct(this, 'OrderQueue', ...)
SynthQueue ==
    /\ cdk.pc = "start"
    /\ Synthesized("queue", [queue |-> QueueConstruct(cdk.input)])

\* the stack is deployed: both queues are empty, the alarm has no data yet
DeployQueue ==
    /\ cdk.pc = "queue"
    /\ aws.pc = "none"
    /\ aws' = [pc |-> "running",
               messages |-> [m \in Messages |-> [at |-> "none", receiveCount |-> 0]],
               period |-> 0,
               datapoints |-> <<>>,
               dlqAlarm |-> "INSUFFICIENT_DATA",
               published |-> {}]
    /\ UNCHANGED <<orders, order_items, now, clock, engine, cdk, last, tx, gen>>

Running(next) ==
    /\ aws.pc = "running"
    /\ aws' = next
    /\ UNCHANGED <<orders, order_items, now, clock, engine, cdk, last, tx, gen>>

\* SendMessage to the main queue
SendMessage(m) ==
    /\ aws.pc = "running"
    /\ aws.messages[m].at = "none"
    /\ Running([aws EXCEPT !.messages[m].at = "queue"])

\* ReceiveMessage on the main queue finds m visible.  A message already
\* received maxReceiveCount times is not delivered again: the redrive policy
\* moves it to the dead-letter queue.  Any other is delivered and stays
\* invisible for the visibility timeout.
ReceiveMessage(m) ==
    /\ aws.pc = "running"
    /\ aws.messages[m].at = "queue"
    /\ IF aws.messages[m].receiveCount
             >= cdk.queue.queue.deadLetterQueue.maxReceiveCount
       THEN Running([aws EXCEPT !.messages[m].at = "dlq"])
       ELSE Running([aws EXCEPT !.messages[m].at = "inflight",
                                !.messages[m].receiveCount = @ + 1])

\* the consumer has processed m: DeleteMessage
DeleteMessage(m) ==
    /\ aws.pc = "running"
    /\ aws.messages[m].at = "inflight"
    /\ Running([aws EXCEPT !.messages[m].at = "deleted"])

\* the consumer has not deleted m within the visibility timeout
VisibilityTimeout(m) ==
    /\ aws.pc = "running"
    /\ aws.messages[m].at = "inflight"
    /\ Running([aws EXCEPT !.messages[m].at = "queue"])

DlqVisible == {m \in Messages : aws.messages[m].at = "dlq"}

\* a period of the dead-letter queue's metric ends: SQS reports the number
\* of visible messages (an empty queue may report nothing), CloudWatch
\* evaluates the alarm and runs its actions when it enters ALARM
EvaluateDlqAlarm ==
    /\ aws.pc = "running"
    /\ \E d \in IF DlqVisible = {} THEN {MissingData, Num(0)}
                ELSE {Num(Cardinality(DlqVisible))} :
          LET alarm == cdk.queue.dlqAlarm
              dps == Evaluated(alarm, Append(aws.datapoints, d))
              state == AlarmState(alarm, dps)
          IN  Running([aws EXCEPT
                  !.period = 1 - @,
                  !.datapoints = dps,
                  !.dlqAlarm = state,
                  !.published = @ \cup Notified(alarm, aws.dlqAlarm, state)])

InitQueue ==
    /\ orders = {}
    /\ order_items = {}
    /\ now = 0
    /\ clock = 0
    /\ engine \in [subquery_check : {FALSE}, variable_conflict : {"error"}]
    /\ last = [op |-> "none", err |-> ""]
    /\ tx = IdleSessions
    /\ gen = IdleSessions
    /\ cdk \in {[pc |-> "start", input |-> i] : i \in QueueInputs}
    /\ aws = NotDeployed

NextQueue ==
    \/ SynthQueue
    \/ DeployQueue
    \/ \E m \in Messages : SendMessage(m)
    \/ \E m \in Messages : ReceiveMessage(m)
    \/ \E m \in Messages : DeleteMessage(m)
    \/ \E m \in Messages : VisibilityTimeout(m)
    \/ EvaluateDlqAlarm

\* the service polls the queue for as long as it runs, a visibility timeout
\* runs out, and CloudWatch evaluates the alarm at the end of every period
FairQueue ==
    /\ \A m \in Messages : WF_vars(ReceiveMessage(m))
    /\ \A m \in Messages : WF_vars(VisibilityTimeout(m))
    /\ WF_vars(EvaluateDlqAlarm)

SpecQueue == InitQueue /\ [][NextQueue]_vars /\ FairQueue

\* createScalingAlarms with the comparison its unit test expects
createScalingAlarms_GreaterThan(props) ==
    LET maxCapacityAlarm ==
            Alarm([metric |-> "RunningTasksCount",
                   statistic |-> "Average",
                   period |-> 1,
                   threshold |-> props.maxCapacity,
                   evaluationPeriods |-> 2,
                   comparisonOperator |-> "GreaterThanThreshold",
                   treatMissingData |-> "notBreaching"])
    IN  IF Truthy(props.alarmTopic)
        THEN addAlarmAction(maxCapacityAlarm, props.alarmTopic)
        ELSE maxCapacityAlarm

\* AutoscalingConstruct.createScalingAlarms, the max-capacity alarm: the
\* one-minute average of RunningTasksCount against props.maxCapacity
createScalingAlarms(props) ==
    LET maxCapacityAlarm ==
            Alarm([metric |-> "RunningTasksCount",
                   statistic |-> "Average",
                   period |-> 1,
                   threshold |-> props.maxCapacity,
                   evaluationPeriods |-> 2,
                   comparisonOperator |-> "GreaterThanOrEqualToThreshold",
                   treatMissingData |-> "notBreaching"])
    IN  IF Truthy(props.alarmTopic)
        THEN addAlarmAction(maxCapacityAlarm, props.alarmTopic)
        ELSE maxCapacityAlarm

\* new AutoscalingConstruct(scope, id, props)
AutoscalingConstruct(props) ==
    [scalableTarget |-> [minCapacity |-> props.minCapacity,
                         maxCapacity |-> props.maxCapacity],
     maxCapacityAlarm |-> createScalingAlarms(props)]

MaxCapacity == 2

\* the averages RunningTasksCount can report: a deployment may run more
\* tasks than maxCapacity for a while
TaskCounts == 0 .. (MaxCapacity + 1)

ScalingInputs ==
    [minCapacity : {1},
     maxCapacity : 1 .. MaxCapacity,
     alarmTopic : {undefined, Str("order-processor-alarms")}]

\* new AutoscalingConstruct(this, 'OrderProcessorAutoScaling', ...)
SynthScaling ==
    /\ cdk.pc = "start"
    /\ Synthesized("autoscaling", [autoscaling |-> AutoscalingConstruct(cdk.input)])

\* the stack is deployed: the metric has no datapoint yet
DeployScaling ==
    /\ cdk.pc = "autoscaling"
    /\ aws.pc = "none"
    /\ aws' = [pc |-> "running",
               datapoints |-> <<>>,
               maxCapacityAlarm |-> "INSUFFICIENT_DATA",
               published |-> {}]
    /\ UNCHANGED <<orders, order_items, now, clock, engine, cdk, last, tx, gen>>

\* the last n elements of seq
Recent(seq, n) ==
    IF Len(seq) <= n THEN seq ELSE SubSeq(seq, Len(seq) - n + 1, Len(seq))

\* a minute ends: the metric reports the minute's average task count or
\* nothing, CloudWatch evaluates the alarm and runs its actions when it
\* enters ALARM.  The datapoints kept are those of the evaluation periods
\* and the one before them.
EvaluateMaxCapacityAlarm ==
    /\ aws.pc = "running"
    /\ \E d \in {MissingData} \cup {Num(n) : n \in TaskCounts} :
          LET alarm == cdk.autoscaling.maxCapacityAlarm
              dps == Append(aws.datapoints, d)
              state == AlarmState(alarm, dps)
          IN  Running([aws EXCEPT
                  !.datapoints = Recent(dps, alarm.evaluationPeriods + 1),
                  !.maxCapacityAlarm = state,
                  !.published =
                      @ \cup Notified(alarm, aws.maxCapacityAlarm, state)])

InitScaling ==
    /\ orders = {}
    /\ order_items = {}
    /\ now = 0
    /\ clock = 0
    /\ engine \in [subquery_check : {FALSE}, variable_conflict : {"error"}]
    /\ last = [op |-> "none", err |-> ""]
    /\ tx = IdleSessions
    /\ gen = IdleSessions
    /\ cdk \in {[pc |-> "start", input |-> i] : i \in ScalingInputs}
    /\ aws = NotDeployed

NextScaling ==
    \/ SynthScaling
    \/ DeployScaling
    \/ EvaluateMaxCapacityAlarm

SpecScaling == InitScaling /\ [][NextScaling]_vars

-----------------------------------------------------------------------------
(* Claims checked under Spec *)

ItemSum(items, oid) == V(SumTotalPrice(ItemsOf(items, oid)))

\* in the tables res a statement leaves, order oid exists and carries the
\* sum of its items
TotalRewritten(res, oid) ==
    \E o \in res.orders :
        o.id = oid /\ o.total_amount = ItemSum(res.items, oid)

ItemOk(op) == last.op = op /\ last.err = ""

\* C1: in every reachable state every order's total_amount equals the sum
\* of total_price over its order_items rows (0 when it has none).
C1_TotalEqualsItemSum ==
    \A o \in orders : o.total_amount = ItemSum(order_items, o.id)

\* C2: a successful INSERT or UPDATE of an order_items row leaves the order
\* the new row references with total_amount = the sum of its items'
\* total_price; a successful DELETE does so for the order the old row
\* referenced.
C2_TriggerRewritesTotal ==
    /\ \A r \in ItemInputs :
          LET res == ExecInsertItem(r)
          IN  (res.err = "" /\ r \in res.items) => TotalRewritten(res, r.order_id)
    /\ \A r \in ItemInputs :
          LET res == ExecUpdateItem(r)
          IN  (res.err = "" /\ r \in res.items) => TotalRewritten(res, r.order_id)
    /\ \A x \in order_items :
          LET res == ExecDeleteItem(x.id)
          IN  res.err = "" => TotalRewritten(res, x.order_id)

\* an item statement has just succeeded on an order that holds two items
\* and carries their sum
C2_Witness ==
    /\ last.op \in {"insert_item", "update_item", "delete_item"}
    /\ last.err = ""
    /\ \E o \in orders :
          /\ Cardinality(ItemsOf(order_items, o.id)) = 2
          /\ o.total_amount = ItemSum(order_items, o.id)
          /\ o.total_amount = V(3)

\* deleting row x, the only item of its order, succeeds and leaves the
\* order with total_amount 0
DeleteLastLeavesZero(x) ==
    LET res == ExecDeleteItem(x.id)
    IN  /\ res.err = ""
        /\ x \notin res.items
        /\ \A o \in res.orders : o.id = x.order_id => o.total_amount = V(0)

C4_TotalPriceFormula ==
    \A r \in order_items :
        /\ r.discount_amount # NULL
        /\ r.tax_amount # NULL
        /\ r.total_price =
               r.quantity * r.unit_price - r.discount_amount[1] + r.tax_amount[1]

\* C5: an INSERT of an item with quantity <= 0 or unit_price < 0 is
\* rejected and leaves order_items and every order's total_amount unchanged.
C5_BadQuantityOrPriceRejected ==
    \A r \in ItemInputs :
        (r.quantity <= 0 \/ r.unit_price < 0) =>
            LET res == ExecInsertItem(r)
            IN  /\ res.err # ""
                /\ res.items = order_items
                /\ res.orders = orders

\* such an INSERT has just been rejected against a non-empty order
C5_Witness ==
    /\ last.op = "insert_item"
    /\ last.err \in {"order_items_quantity_check", "order_items_unit_price_check"}
    /\ \E o \in orders : o.total_amount = V(2) /\ ItemsOf(order_items, o.id) # {}

\* the rewrite of order oid by the trigger, over the items a statement
\* leaves, breaks a constraint of the order row
ParentViolates(items2, oid) ==
    \E o \in orders :
        o.id = oid /\ OrderRowViolation(OrderTotalRow(o, items2), items2) # ""

Aborted(res) ==
    res.err # "" /\ res.items = order_items /\ res.orders = orders

C8_NewOrderZeroPending ==
    [][\A o \in orders' :
          (/\ ~\E p \in orders : p.id = o.id
           /\ ItemsOf(order_items', o.id) = {})
          => (o.total_amount = V(0) /\ o.status = "pending")]_vars

\* C18: every order whose status is not 'pending' has at least one order
\* item, whatever statements led to the state.
C18_NonPendingHasItems ==
    \A o \in orders : o.status # "pending" => ItemsOf(order_items, o.id) # {}

\* C20: after an UPDATE that moves an item from order A to order B, both of
\* them consistent before, A's total_amount is the sum of A's remaining
\* items and B's the sum of B's items, the moved one included.
C20_MoveKeepsBothTotals ==
    \A r \in ItemInputs : \A x \in order_items :
        (/\ x.id = r.id
         /\ x.order_id # r.order_id
         /\ C1_TotalEqualsItemSum
         /\ ExecUpdateItem(r).err = "")
        => /\ r \in ExecUpdateItem(r).items
           /\ TotalRewritten(ExecUpdateItem(r), r.order_id)
           /\ TotalRewritten(ExecUpdateItem(r), x.order_id)

-----------------------------------------------------------------------------
(* Claims checked under SpecStatus *)

\* row o has a status that has a timestamp column, and the column is NULL
StatusLacksTimestamp(o) ==
    TimestampOf(o.status) # "" /\ o[TimestampOf(o.status)] = NULL

\* C9: every order whose status is not 'pending' has the timestamp column
\* of its status set, and an INSERT or UPDATE that would leave such a
\* status with a NULL timestamp is rejected.
C9_StatusHasTimestamp ==
    /\ \A o \in orders : ~StatusLacksTimestamp(o)
    /\ \A r \in LifecycleOrders :
          StatusLacksTimestamp(r) => Aborted(ExecInsertOrder(r))
    /\ \A o \in orders, p \in LifecyclePatches :
          StatusLacksTimestamp(Patched(o, p))
          => Aborted(ExecUpdateOrder(o.id, p))

\* an UPDATE has just been refused by valid_status_transitions on an order
\* that reached 'delivered' with two timestamps set
C9_Witness ==
    /\ last = [op |-> "update_order", err |-> "valid_status_transitions"]
    /\ \E o \in orders :
          /\ o.status = "delivered"
          /\ o.delivered_at # NULL
          /\ o.processed_at # NULL

\* how far along the lifecycle a status is; 'delivered', 'cancelled' and
\* 'failed' end it
StatusRank(st) ==
    CASE st = "pending" -> 0
      [] st = "processing" -> 1
      [] st = "confirmed" -> 2
      [] st = "shipped" -> 3
      [] OTHER -> 4

\* C19: an order's status only moves forward through the lifecycle: no
\* UPDATE takes an order to an earlier status, and an order that has reached
\* 'delivered', 'cancelled' or 'failed' is never 'pending' again.
C19_StatusOnlyMovesForward ==
    [][\A o \in orders, p \in orders' :
          o.id = p.id => StatusRank(p.status) >= StatusRank(o.status)]_vars

-----------------------------------------------------------------------------
(* Claims checked under SpecGen *)

-----------------------------------------------------------------------------
(* Claims checked under SpecDefault *)

\* C21: when concurrent transactions each insert an order that takes the
\* default order_number, every such INSERT commits (none ends with a
\* violation of the UNIQUE constraint on order_number or with any other
\* error of the generator; a clash of the ids the clients chose is not the
\* generator's), and the orders carry different order numbers.
C21_ConcurrentDefaultsCommit ==
    /\ last.op = "insert_order_default" => last.err \in {"", "orders_pkey"}
    /\ \A o \in orders, p \in orders :
          o.id # p.id => o.order_number # p.order_number

\* some order number of today's form is not the number of any order
UnusedNumberExists ==
    \E n \in OrderNumbers : \A o \in orders : o.order_number # n

\* C22: every call of app.generate_order_number() made while some order
\* number is still unused terminates by returning a value: its loop exits
\* and it raises no error.
C22_GeneratorReturns ==
    \A s \in Sessions :
        (gen[s].pc = "loop" /\ UnusedNumberExists) ~> (gen[s].pc = "returned")

-----------------------------------------------------------------------------
(* Claims checked under SpecTx *)

\* C7: once concurrent transactions that each changed a different item of
\* the same order have all committed, the order's total_amount equals the
\* sum of total_price over its committed items.
C7_ConcurrentTotalConsistent ==
    (\A s \in Sessions : tx[s].pc = "idle")
    => \A o \in orders : o.total_amount = ItemSum(order_items, o.id)

-----------------------------------------------------------------------------
(* Claims checked under SpecClock *)

ItemStatementSucceeded ==
    last'.op \in {"insert_item", "update_item", "delete_item"}
    /\ last'.err = "" /\ order_items' # order_items

\* the rows whose parent the statement's trigger rewrote: the new rows of an
\* INSERT or UPDATE, the old rows of a DELETE
MutatedRows ==
    IF last'.op = "delete_item" THEN order_items \ order_items'
    ELSE order_items' \ order_items

\* C11: after every successful INSERT, UPDATE or DELETE of an order item
\* the parent order's updated_at is the timestamp of the transaction that
\* ran it, and no order's updated_at decreases over an item statement.
C11_UpdatedAtSetAndMonotonic ==
    [][ItemStatementSucceeded =>
          /\ \A x \in MutatedRows : \A o \in orders' :
                o.id = x.order_id => o.updated_at = now
          /\ \A o \in orders, p \in orders' :
                o.id = p.id => p.updated_at >= o.updated_at]_vars

-----------------------------------------------------------------------------
(* Claims checked under SpecFrame *)

\* the tables res a statement on the order_items row id leaves: every order
\* outside touched keeps its total_amount and updated_at, and every
\* order_items row other than row id is as it was
FrameKept(res, touched, id) ==
    /\ \A o \in orders :
          o.id \notin touched =>
              \E p \in res.orders :
                  /\ p.id = o.id
                  /\ p.total_amount = o.total_amount
                  /\ p.updated_at = o.updated_at
    /\ \A x \in order_items : x.id # id => x \in res.items
    /\ \A x \in res.items : x.id # id => x \in order_items

\* C23: an INSERT, UPDATE or DELETE of an order_items row leaves the
\* total_amount and updated_at of every order other than those of the
\* row's old and new order_id unchanged, and leaves every other
\* order_items row unchanged.
C23_ItemStatementFrame ==
    /\ \A r \in ClockItems :
          FrameKept(ExecInsertItem(r), {r.order_id}, r.id)
    /\ \A r \in ClockItems :
          FrameKept(ExecUpdateItem(r),
                    {r.order_id}
                        \cup {x.order_id : x \in {y \in order_items : y.id = r.id}},
                    r.id)
    /\ \A x \in order_items :
          FrameKept(ExecDeleteItem(x.id), {x.order_id}, x.id)

\* an item statement has just stamped one order with the time of its
\* transaction while the other order, which holds an item of its own, still
\* carries an earlier stamp
C23_Witness ==
    /\ last.op \in {"insert_item", "update_item", "delete_item"}
    /\ last.err = ""
    /\ \E o \in orders, p \in orders :
          /\ o.id # p.id
          /\ o.updated_at = now
          /\ p.updated_at # now
          /\ ItemsOf(order_items, p.id) # {}

-----------------------------------------------------------------------------
(* Claims checked under SpecKeys *)

\* row r would stand beside another row of its order with its item_number
DuplicatesNumber(r) ==
    \E x \in order_items :
        x.id # r.id /\ x.order_id = r.order_id /\ x.item_number = r.item_number

\* C12: no two items of one order share an item_number; an INSERT or UPDATE
\* that would produce such a pair is rejected; an item_number used only in
\* other orders does not stop an INSERT or UPDATE.
C12_ItemNumberUniquePerOrder ==
    /\ \A x, y \in order_items :
          (x.order_id = y.order_id /\ x.item_number = y.item_number) => x = y
    /\ \A r \in KeyItems :
          DuplicatesNumber(r) =>
              /\ (~\E x \in order_items : x.id = r.id)
                     => Aborted(ExecInsertItem(r))
              /\ (\E x \in order_items : x.id = r.id)
                     => Aborted(ExecUpdateItem(r))
    /\ \A r \in KeyItems :
          (/\ ~DuplicatesNumber(r)
           /\ \E x \in order_items :
                  x.id # r.id /\ x.item_number = r.item_number
           /\ \E o \in orders : o.id = r.order_id)
          => /\ ExecInsertItem(r).err # "unique_order_item_number"
             /\ ExecUpdateItem(r).err # "unique_order_item_number"
             /\ (/\ \A x \in order_items : x.id # r.id
                 /\ ~ParentViolates(order_items \cup {r}, r.order_id))
                => r \in ExecInsertItem(r).items

\* an UPDATE that would give two items of one order the same item_number
\* has just been refused, and the order's two items keep different numbers
C12_Witness ==
    /\ last = [op |-> "update_item", err |-> "unique_order_item_number"]
    /\ \E x, y \in order_items :
          x.order_id = y.order_id /\ x.item_number # y.item_number

\* C13: every order_items row references an existing order; DELETE of an
\* order succeeds, removes the order's items through the cascade, and the
\* delete triggers the cascade fires leave every other order row, its
\* total_amount included, as it was.
C13_CascadeKeepsReferences ==
    /\ \A x \in order_items : \E o \in orders : o.id = x.order_id
    /\ \A o \in orders :
          LET res == ExecDeleteOrder(o.id)
          IN  /\ res.err = ""
              /\ res.items = order_items \ ItemsOf(order_items, o.id)
              /\ res.orders = orders \ {o}

\* a DELETE has just removed an order together with its items, and another
\* order still stands with an item and the total of it
C13_Witness ==
    /\ last = [op |-> "delete_order_cascade", err |-> ""]
    /\ \E o \in orders :
          /\ ItemsOf(order_items, o.id) # {}
          /\ o.total_amount = ItemSum(order_items, o.id)

-----------------------------------------------------------------------------
(* Claims checked under SpecOverflow *)

\* the statement that gave res was rejected and changed nothing
Rejected(res) ==
    res.err # "" /\ res.orders = orders /\ res.items = order_items

\* the items of order oid in the table items add up to more than a
\* NUMERIC(12, 2) holds
SumExceeds(items, oid) == SumTotalPrice(ItemsOf(items, oid)) > NumericMax

\* C24: an INSERT or UPDATE of an item that would make the sum of its
\* order's total_price values exceed the NUMERIC(12, 2) maximum is rejected
\* and changes nothing; an accepted one leaves the order with a
\* total_amount that is exactly the sum of its items, within the maximum.
C24_OverflowRejected ==
    /\ \A r \in LargeItems :
          LET res == ExecInsertItem(r)
          IN  /\ SumExceeds(order_items \cup {r}, r.order_id) => Rejected(res)
              /\ (res.err = "" /\ r \in res.items) =>
                     /\ TotalRewritten(res, r.order_id)
                     /\ ~SumExceeds(res.items, r.order_id)
    /\ \A r \in LargeItems :
          LET old == {x \in order_items : x.id = r.id}
              res == ExecUpdateItem(r)
          IN  /\ (old # {}
                  /\ SumExceeds((order_items \ old) \cup {r}, r.order_id))
                 => Rejected(res)
              /\ (res.err = "" /\ r \in res.items) =>
                     /\ TotalRewritten(res, r.order_id)
                     /\ ~SumExceeds(res.items, r.order_id)

\* an item statement has just been refused for overflow on an order whose
\* two items add up to exactly the largest amount
C24_Witness ==
    /\ last.op \in {"insert_item", "update_item"}
    /\ last.err = "numeric_field_overflow"
    /\ \E o \in orders :
          /\ Cardinality(ItemsOf(order_items, o.id)) = 2
          /\ o.total_amount = V(NumericMax)

-----------------------------------------------------------------------------
(* Claims checked under SpecQueue *)

\* the receive count the queue was configured with: the prop, 3 when it
\* is unset
ConfiguredMaxReceiveCount ==
    IF cdk.input.maxReceiveCount = undefined THEN 3
    ELSE cdk.input.maxReceiveCount[1]

\* message m has been received count times and is visible again
ReceivedUndeleted(m, count) ==
    /\ aws.pc = "running"
    /\ aws.messages[m].at = "queue"
    /\ aws.messages[m].receiveCount = count

InDlq(m) == aws.pc = "running" /\ aws.messages[m].at = "dlq"

\* the dead-letter queue alarm is in ALARM and, when a topic was supplied,
\* the topic has been notified
DlqAlarmRaised(a) ==
    /\ a.pc = "running"
    /\ a.dlqAlarm = "ALARM"
    /\ Truthy(cdk.input.alarmTopic) => cdk.input.alarmTopic \in a.published

-----------------------------------------------------------------------------
(* Claims checked under SpecScaling *)

\* datapoint d reports a task count at or above the configured maxCapacity
AtMaxCapacity(d) == d # MissingData /\ d[1] >= cdk.input.maxCapacity

\* the last two minutes both reported a task count at or above maxCapacity
TwoMinutesAtMax ==
    LET dps == aws.datapoints
    IN  /\ Len(dps) >= 2
        /\ AtMaxCapacity(dps[Len(dps)])
        /\ AtMaxCapacity(dps[Len(dps) - 1])

-----------------------------------------------------------------------------
(* Claims checked under SpecSynth *)

\* C14: when ENABLE_PERFORMANCE_INSIGHTS is unset, loadSharedConfig sets
\* enablePerformanceInsights to true only if environment is exactly 'prod';
\* when the variable is set, the result is true iff its value is exactly
\* 'true'.
C14_PerformanceInsightsFlag ==
    cdk.pc # "start" =>
        LET value == cdk.process_env["ENABLE_PERFORMANCE_INSIGHTS"]
        IN  IF value = undefined
            THEN cdk.config.enablePerformanceInsights
                     <=> cdk.input.environment = "prod"
            ELSE cdk.config.enablePerformanceInsights
                     <=> value = Str("true")

\* the configuration has been loaded for 'prod' with the variable set
\* nowhere, and Performance Insights is on
C14_Witness ==
    /\ cdk.pc = "config"
    /\ cdk.input.environment = "prod"
    /\ cdk.input.process_env["ENABLE_PERFORMANCE_INSIGHTS"] = undefined
    /\ cdk.input.file["ENABLE_PERFORMANCE_INSIGHTS"] = undefined
    /\ cdk.config.enablePerformanceInsights

\* neither process.env nor the .env file sets either of the two variables
NoOverride ==
    \A k \in EnvVars :
        cdk.input.process_env[k] = undefined /\ cdk.input.file[k] = undefined

\* C15: with no ENABLE_PERFORMANCE_INSIGHTS or PERFORMANCE_INSIGHTS_LONG_TERM
\* override the 'prod' database has Performance Insights enabled with
\* long-term retention, and staging and dev have both disabled.
C15_ProdLongTermRetention ==
    (cdk.pc \in {"database", "alb", "service"} /\ NoOverride) =>
        LET instance == cdk.database.instance
        IN  /\ cdk.input.environment = "prod" =>
                  /\ instance.enablePerformanceInsights
                  /\ instance.performanceInsightRetention = Str("LONG_TERM")
            /\ cdk.input.environment \in {"staging", "dev"} =>
                  /\ ~instance.enablePerformanceInsights
                  /\ instance.performanceInsightRetention # Str("LONG_TERM")

\* a certificate is provided: certificateArn is there and names one
CertificateProvided == cdk.input.certificateArn \notin {undefined, Str("")}

ListenersOn(port) == {l \in cdk.alb.listeners : l.port = port}

\* C16: AlbConstruct creates the HTTPS listener on 443 and the ingress rule
\* for port 443 if and only if a certificate is provided; without one the
\* only listener is HTTP on port 80 with a fixed-response default action,
\* with one the HTTP listener's default action is a permanent redirect to
\* HTTPS:443.
C16_HttpsOnlyWithCertificate ==
    cdk.pc \in {"alb", "service"} =>
        /\ (\E l \in ListenersOn(443) : l.protocol = "HTTPS")
               <=> CertificateProvided
        /\ IngressRule("AlbSecurityGroup", anyIpv4, 443) \in cdk.alb.ingress
               <=> CertificateProvided
        /\ ~CertificateProvided =>
               /\ Cardinality(cdk.alb.listeners) = 1
               /\ \A l \in cdk.alb.listeners :
                     /\ l.port = 80
                     /\ l.protocol = "HTTP"
                     /\ l.defaultAction.type = "fixed-response"
        /\ CertificateProvided =>
               /\ ListenersOn(80) # {}
               /\ \A l \in ListenersOn(80) :
                     /\ l.protocol = "HTTP"
                     /\ l.defaultAction = [type |-> "redirect",
                                           protocol |-> "HTTPS",
                                           port |-> "443",
                                           permanent |-> TRUE]

\* the load balancer has been built with a certificate: two listeners, the
\* one on port 80 redirecting
C16_Witness ==
    /\ cdk.pc = "alb"
    /\ CertificateProvided
    /\ Cardinality(cdk.alb.listeners) = 2
    /\ \E l \in ListenersOn(80) : l.defaultAction.type = "redirect"

(* Who can reach what.  A source is the Internet or a network interface in *)
(* a subnet, member of some security groups.                               *)

Internet == [kind |-> "internet"]

Interfaces(subnets, groups) ==
    {[kind |-> "interface", subnet |-> sn, groups |-> groups] : sn \in subnets}

PeerMatches(peer, src) ==
    CASE peer.kind = "anyIpv4" -> TRUE
      [] peer.kind = "ipv4" -> src.kind = "interface" /\ src.subnet = peer.subnet
      [] peer.kind = "securityGroupId" ->
             src.kind = "interface" /\ peer.group \in src.groups

\* some ingress rule of the group lets src in on the port
Admits(group, src, port) ==
    \E rule \in Ingress :
        rule.group = group /\ rule.port = port /\ PeerMatches(rule.peer, src)

Ports == {80, 443, 5432, 3000, 8080}

\* C17: the ingress rules generated are Internet -> ALB on tcp/80 (and 443
\* with a certificate), ALB security group -> ECS tasks on the container
\* port and private-subnet CIDRs -> RDS on tcp/5432, and no others; nothing
\* on the Internet or in a public subnet reaches the tasks without being in
\* the ALB's group, or the database at all; the RDS group has no egress.
C17_OnlyIntendedIngress ==
    cdk.pc = "service" =>
        /\ Ingress =
              {IngressRule("AlbSecurityGroup", anyIpv4, 80)}
              \cup (IF CertificateProvided
                    THEN {IngressRule("AlbSecurityGroup", anyIpv4, 443)}
                    ELSE {})
              \cup {IngressRule("ServiceSecurityGroup",
                                securityGroupId("AlbSecurityGroup"),
                                cdk.input.containerPort)}
              \cup {IngressRule("RdsSecurityGroup", ipv4(sn), 5432) :
                        sn \in cdk.vpc.privateSubnets}
        /\ \A port \in Ports :
              \A src \in {Internet} \cup Interfaces(cdk.vpc.publicSubnets, {}) :
                  /\ ~Admits("ServiceSecurityGroup", src, port)
                  /\ ~Admits("RdsSecurityGroup", src, port)
        /\ \A port \in Ports :
              \A src \in Interfaces(cdk.vpc.publicSubnets, {"AlbSecurityGroup"}) :
                  ~Admits("RdsSecurityGroup", src, port)
        /\ cdk.database.egress = {}

\* both apps are synthesized over two availability zones with a
\* certificate, and a task in a private subnet reaches the database
C17_Witness ==
    /\ cdk.pc = "service"
    /\ CertificateProvided
    /\ Cardinality(cdk.vpc.privateSubnets) = 2
    /\ \A src \in Interfaces(cdk.vpc.privateSubnets, {"ServiceSecurityGroup"}) :
          Admits("RdsSecurityGroup", src, 5432)
    /\ \A src \in Interfaces(cdk.vpc.publicSubnets, {"AlbSecurityGroup"}) :
          Admits("ServiceSecurityGroup", src, cdk.input.containerPort)

====
